---- MODULE Spec2Model ----
(***************************************************************************)
(* Model of the push relay in src/main.go: the retry loop of push, one     *)
(* delivery attempt (Push), the transport registry (ClientMap / clients),  *)
(* the connection health monitor (pinger) and the transactional device     *)
(* bookkeeping (updateDeviceStats) against the datastore.                  *)
(*                                                                         *)
(* Time is counted in seconds.  The only comparison the program makes on   *)
(* the clock is time.Since(timestamp) > PingThreshold, so the clock moves  *)
(* in steps of one PingThreshold and the sleeps (PingFrequency, the 1 s and *)
(* 2 s of the backoff) finish inside a step: a sleeping goroutine may be   *)
(* woken at any later moment.                                              *)
(***************************************************************************)
EXTENDS Integers, Sequences, FiniteSets, TLC

\* ------------------------------------------------------------ constants
MaxRetries == 3
PingThreshold == 60

\* ------------------------------------------------------------ bounds
\* Number of ClientMap.Create calls main may make before serving.
MaxCreates == 2
\* Number of refresh rounds of the pinger.
MaxRefreshes == 1

\* The push goroutines: Spec runs one notification against every outcome of
\* the gateway, with the clock and the pinger's refresh; SpecRace runs two
\* notifications concurrently against RaceOutcomes.
Slots == {1, 2}
FirstSlot == {1}

\* The application main registers, and the applications a payload may name
\* ("" is the zero value of Payload.App).
RegApps == {"cam.reaction.ReactionCam"}
PayloadApps == RegApps \cup {"cam.reaction.Other", ""}

\* Device keys (account id + device token).
Keys == {"k1", "k2"}
FirstKey == {"k1"}

\* HTTP statuses the gateway may answer with.
Statuses == {200, 400, 410, 429, 500, 503, 403, 404}

VARIABLES
    proc,       \* "setup" | "serving" | "panic" | "fatal" | "throw"
    clients,    \* the ClientMap: registered app -> *http.Client (an id)
    nextClient, \* id of the next *http.Client NewClient allocates
    creates,    \* ClientMap.Create calls made by main
    idle,       \* seconds since the global `timestamp` was written
    since200,   \* seconds since a response with status 200 (observer)
    pinger,     \* the pinger goroutine: pc, apps left to range over, write in progress
    refreshes,  \* refresh rounds the pinger has started
    task,       \* one push goroutine per slot
    store       \* the datastore: device key -> Device entity

vars == <<proc, clients, nextClient, creates, idle, since200, pinger, refreshes, task, store>>

\* ------------------------------------------------------------ PushError
Nil == [kind |-> "nil", StatusCode |-> 0]
NoErr == [kind |-> "none", StatusCode |-> 0]
InvalidApp == [kind |-> "invalid app", StatusCode |-> 0]
TransportErr == [kind |-> "transport", StatusCode |-> 0]
BodyReadErr == [kind |-> "body read", StatusCode |-> 0]
PushError(code) == [kind |-> "PushError", StatusCode |-> code]

IsPushError(err) == err.kind = "PushError"

\* Mutant: status 400 is not classified as permanent.
PermanentOnly410(err) == err.StatusCode = 410

Permanent(err) == err.StatusCode = 400 \/ err.StatusCode = 410

Retryable(err) == err.StatusCode = 429 \/ err.StatusCode = 500 \/ err.StatusCode = 503

\* ------------------------------------------------------------ gateway
Resp(code) == [kind |-> "response", code |-> code, body |-> TRUE]
\* A non-200 response whose body cannot be read (ioutil.ReadAll fails).
BadBody(code) == [kind |-> "response", code |-> code, body |-> FALSE]
NoResp == [kind |-> "no response", code |-> 0, body |-> FALSE]

Outcomes == {Resp(c) : c \in Statuses} \cup {BadBody(c) : c \in Statuses} \cup {NoResp}
RaceOutcomes == {Resp(200), Resp(410), Resp(503)}

\* What Push returns for an outcome of client.Do.
PushResult(out) ==
    IF out.kind = "no response" THEN TransportErr
    ELSE IF out.code = 200 THEN Nil
    ELSE IF ~out.body THEN BodyReadErr
    ELSE PushError(out.code)

\* ------------------------------------------------------------ backoff
RECURSIVE Exp2(_)
Exp2(n) == IF n <= 0 THEN 1 ELSE 2 * Exp2(n - 1)

\* Mutant: the delay does not grow with the attempt.
BackoffNoGrowth(attempt) == Exp2(0)

\* Mutant: the exponent is the attempt number.
BackoffFromTwo(attempt) == Exp2(attempt)

\* time.Duration(math.Exp2(float64(attempt-1))) * time.Second, in seconds.
Backoff(attempt) == Exp2(attempt - 1)

\* ------------------------------------------------------------ devices
NoDevice == [exists |-> FALSE, Failures |-> 0, TotalFailures |-> 0, TotalSuccesses |-> 0, version |-> 0]
OldDevice == [exists |-> TRUE, Failures |-> 1, TotalFailures |-> 2, TotalSuccesses |-> 1, version |-> 0]

\* Mutant: a success does not reset the consecutive-failure counter.
BookkeepNoReset(device, success) ==
    IF success
    THEN [device EXCEPT !.TotalSuccesses = @ + 1]
    ELSE [device EXCEPT !.Failures = @ + 1, !.TotalFailures = @ + 1]

\* The body of the transaction function of updateDeviceStats.
Bookkeep(device, success) ==
    IF success
    THEN [device EXCEPT !.TotalSuccesses = @ + 1, !.Failures = 0]
    ELSE [device EXCEPT !.Failures = @ + 1, !.TotalFailures = @ + 1]

\* ------------------------------------------------------------ tasks
IdleTask ==
    [pc |-> "idle", app |-> "", key |-> "k1", attempt |-> 0, client |-> 0,
     err |-> NoErr, snap |-> NoDevice, term |-> "",
     errs |-> <<>>, calls |-> <<>>, delays |-> <<>>, served |-> 0]

Running == proc = "serving"

Init ==
    /\ proc = "setup"
    /\ clients = <<>>
    /\ nextClient = 1
    /\ creates = 0
    /\ idle = 0
    /\ since200 = 0
    /\ pinger = [pc |-> "off", todo |-> {}, app |-> "", new |-> 0]
    /\ refreshes = 0
    /\ task = [d \in Slots |-> IdleTask]
    /\ store = [k \in Keys |-> OldDevice]

Alive == proc \in {"setup", "serving"}

Min(a, b) == IF a < b THEN a ELSE b

ClockCap == 2 * PingThreshold

\* ------------------------------------------------------------ main
\* NewClient: a fresh *http.Client, or log.Fatalf when the certificate of
\* the application cannot be loaded (ok = FALSE).
\* ClientMap.Create, called by main before it serves.
Create(app, ok) ==
    /\ proc = "setup"
    /\ creates < MaxCreates
    /\ creates' = creates + 1
    /\ IF app \in DOMAIN clients
       THEN /\ proc' = "panic"
            /\ UNCHANGED <<clients, nextClient>>
       ELSE IF ~ok
       THEN /\ proc' = "fatal"
            /\ UNCHANGED <<clients, nextClient>>
       ELSE /\ clients' = clients @@ (app :> nextClient)
            /\ nextClient' = nextClient + 1
            /\ UNCHANGED proc
    /\ UNCHANGED <<idle, since200, pinger, refreshes, task, store>>

\* main: go pinger(); http.ListenAndServe.
Serve ==
    /\ proc = "setup"
    /\ creates >= 1
    /\ proc' = "serving"
    /\ pinger' = [pinger EXCEPT !.pc = "check"]
    /\ UNCHANGED <<clients, nextClient, creates, idle, since200, refreshes, task, store>>

\* The wall clock advances by one threshold period.
Tick ==
    /\ Alive
    /\ idle' = Min(idle + PingThreshold, ClockCap)
    /\ since200' = Min(since200 + PingThreshold, ClockCap)
    /\ UNCHANGED <<proc, clients, nextClient, creates, pinger, refreshes, task, store>>

\* ------------------------------------------------------------ pinger
Stale == idle > PingThreshold

\* if time.Since(timestamp) > PingThreshold { timestamp = time.Now(); range clients }
PingerCheck ==
    /\ Running
    /\ pinger.pc = "check"
    /\ IF Stale
       THEN /\ refreshes < MaxRefreshes
            /\ refreshes' = refreshes + 1
            /\ idle' = 0
            /\ pinger' = [pinger EXCEPT !.pc = "range", !.todo = DOMAIN clients]
       ELSE /\ pinger' = [pinger EXCEPT !.pc = "sleep"]
            /\ UNCHANGED <<idle, refreshes>>
    /\ UNCHANGED <<proc, clients, nextClient, creates, since200, task, store>>

\* One iteration of the range loop: NewClient(app), then the map assignment
\* starts (the runtime marks the map as being written).
PingerNewClient(app, ok) ==
    /\ Running
    /\ pinger.pc = "range"
    /\ app \in pinger.todo
    /\ IF ok
       THEN /\ pinger' = [pinger EXCEPT !.pc = "writing", !.app = app, !.new = nextClient]
            /\ nextClient' = nextClient + 1
            /\ UNCHANGED proc
       ELSE /\ proc' = "fatal"
            /\ UNCHANGED <<pinger, nextClient>>
    /\ UNCHANGED <<clients, creates, idle, since200, refreshes, task, store>>

\* Mutant: the refresh hands the new client to the requests in flight.
PingerStoreRedirects ==
    /\ Running
    /\ pinger.pc = "writing"
    /\ clients' = [clients EXCEPT ![pinger.app] = pinger.new]
    /\ pinger' = [pinger EXCEPT !.pc = IF pinger.todo = {pinger.app} THEN "sleep" ELSE "range",
                                !.todo = @ \ {pinger.app}, !.app = "", !.new = 0]
    /\ task' = [d \in Slots |->
                 IF task[d].pc = "do" /\ task[d].app = pinger.app
                 THEN [task[d] EXCEPT !.client = pinger.new]
                 ELSE task[d]]
    /\ UNCHANGED <<proc, nextClient, creates, idle, since200, refreshes, store>>

\* clients[app] = <new client>: the assignment completes; after the last
\* application the loop body ends in time.Sleep(PingFrequency).
PingerStore ==
    /\ Running
    /\ pinger.pc = "writing"
    /\ clients' = [clients EXCEPT ![pinger.app] = pinger.new]
    /\ pinger' = [pinger EXCEPT !.pc = IF pinger.todo = {pinger.app} THEN "sleep" ELSE "range",
                                !.todo = @ \ {pinger.app}, !.app = "", !.new = 0]
    /\ UNCHANGED <<proc, nextClient, creates, idle, since200, refreshes, task, store>>

\* time.Sleep(PingFrequency) returns.
PingerWake ==
    /\ Running
    /\ pinger.pc = "sleep"
    /\ pinger' = [pinger EXCEPT !.pc = "check"]
    /\ UNCHANGED <<proc, clients, nextClient, creates, idle, since200, refreshes, task, store>>

\* ------------------------------------------------------------ push
\* pushHandler: go push(payload).  push drops a payload without an app.
Spawn(d, app, key) ==
    /\ Running
    /\ task[d].pc = "idle"
    /\ task' = [task EXCEPT ![d] =
                 IF app = ""
                 THEN [@ EXCEPT !.pc = "done", !.app = app, !.key = key, !.term = "Unrecognized"]
                 ELSE [@ EXCEPT !.pc = "lookup", !.app = app, !.key = key, !.attempt = 1]]
    /\ UNCHANGED <<proc, clients, nextClient, creates, idle, since200, pinger, refreshes, store>>

\* Mutant: a permanent failure is recorded with updateDeviceStats before the
\* loop goes on.
AfterPushCountsPermanent(t, err) ==
    [t EXCEPT !.err = err, !.errs = Append(@, err), !.client = 0,
              !.pc = "txget",
              !.calls = Append(@, IF err = Nil THEN "success" ELSE "failure")]

\* Mutant: an error that is not a PushError ends the notification at once.
AfterPushDropsPlainError(t, err) ==
    IF IsPushError(err) /\ Permanent(err)
    THEN [t EXCEPT !.err = err, !.errs = Append(@, err), !.client = 0,
                   !.pc = "delete", !.calls = Append(@, "delete")]
    ELSE IF err # Nil /\ ~IsPushError(err)
    THEN [t EXCEPT !.err = err, !.errs = Append(@, err), !.client = 0,
                   !.pc = "done", !.term = "Dropped"]
    ELSE [t EXCEPT !.err = err, !.errs = Append(@, err), !.client = 0,
                   !.pc = "txget",
                   !.calls = Append(@, IF err = Nil THEN "success" ELSE "failure")]

\* push, from the return of Push to its next store call: the permanent
\* branch calls store.Delete, every other result calls updateDeviceStats.
AfterPush(t, err) ==
    IF IsPushError(err) /\ Permanent(err)
    THEN IF Permanent(err)
         THEN [t EXCEPT !.err = err, !.errs = Append(@, err), !.client = 0,
                        !.pc = "delete", !.calls = Append(@, "delete")]
         ELSE [t EXCEPT !.err = err, !.errs = Append(@, err), !.client = 0,
                        !.pc = "done",
                        !.term = IF ~Retryable(err) THEN "DroppedTerminal" ELSE "Dropped"]
    ELSE [t EXCEPT !.err = err, !.errs = Append(@, err), !.client = 0,
                   !.pc = "txget",
                   !.calls = Append(@, IF err = Nil THEN "success" ELSE "failure")]

\* Push: client, ok := clients[app].  A read that overlaps the pinger's map
\* assignment is a data race: the runtime may stop the process ("concurrent
\* map read and map write"), or the read sees the entry not yet replaced.
Lookup(d, detected) ==
    /\ Running
    /\ task[d].pc = "lookup"
    /\ IF detected
       THEN /\ pinger.pc = "writing"
            /\ proc' = "throw"
            /\ UNCHANGED task
       ELSE /\ task' = [task EXCEPT ![d] =
                         IF task[d].app \in DOMAIN clients
                         THEN [@ EXCEPT !.pc = "do", !.client = clients[task[d].app]]
                         ELSE AfterPush(@, InvalidApp)]
            /\ UNCHANGED proc
    /\ UNCHANGED <<clients, nextClient, creates, idle, since200, pinger, refreshes, store>>

\* Push: client.Do(req) returns; every response writes `timestamp`.
Respond(d, out) ==
    /\ Running
    /\ task[d].pc = "do"
    /\ task' = [task EXCEPT ![d] = AfterPush([@ EXCEPT !.served = task[d].client], PushResult(out))]
    /\ idle' = IF out.kind = "response" THEN 0 ELSE idle
    /\ since200' = IF out.kind = "response" /\ out.code = 200 THEN 0 ELSE since200
    /\ UNCHANGED <<proc, clients, nextClient, creates, pinger, refreshes, store>>

\* Mutant: the loop allows one attempt more than MaxRetries.
AfterUpdateOffByOne(t) ==
    IF t.err = Nil
    THEN [t EXCEPT !.pc = "done", !.term = "Succeeded"]
    ELSE IF t.attempt > MaxRetries
    THEN [t EXCEPT !.pc = "done", !.term = "DroppedExhausted"]
    ELSE [t EXCEPT !.pc = "sleep", !.delays = Append(@, Backoff(t.attempt))]

\* Mutant: the loop does not return after a successful attempt.
AfterUpdateNoReturn(t) ==
    IF t.attempt >= MaxRetries
    THEN [t EXCEPT !.pc = "done", !.term = "DroppedExhausted"]
    ELSE [t EXCEPT !.pc = "sleep", !.delays = Append(@, Backoff(t.attempt))]

\* push, from the return of its store call to the next call of Push.
AfterUpdate(t) ==
    IF t.err = Nil
    THEN [t EXCEPT !.pc = "done", !.term = "Succeeded"]
    ELSE IF t.attempt >= MaxRetries
    THEN [t EXCEPT !.pc = "done", !.term = "DroppedExhausted"]
    ELSE [t EXCEPT !.pc = "sleep", !.delays = Append(@, Backoff(t.attempt))]

\* Mutant: the delete of a key that has no entity stops the process.
DeleteMissingFatal(d, ok) ==
    /\ Running
    /\ task[d].pc = "delete"
    /\ store' = IF ok /\ store[task[d].key].exists
                THEN [store EXCEPT ![task[d].key] = [NoDevice EXCEPT !.version = store[task[d].key].version + 1]]
                ELSE store
    /\ proc' = IF store[task[d].key].exists THEN proc ELSE "fatal"
    /\ task' = [task EXCEPT ![d] = [@ EXCEPT !.pc = "done", !.term = "DroppedPermanent"]]
    /\ UNCHANGED <<clients, nextClient, creates, idle, since200, pinger, refreshes>>

\* store.Delete(ctx, deviceKey); an error is only logged, and the delete of
\* a key that has no entity changes nothing.
Delete(d, ok) ==
    /\ Running
    /\ task[d].pc = "delete"
    /\ store' = IF ok /\ store[task[d].key].exists
                THEN [store EXCEPT ![task[d].key] = [NoDevice EXCEPT !.version = store[task[d].key].version + 1]]
                ELSE store
    /\ task' = [task EXCEPT ![d] = [@ EXCEPT !.pc = "done", !.term = "DroppedPermanent"]]
    /\ UNCHANGED <<proc, clients, nextClient, creates, idle, since200, pinger, refreshes>>

\* Mutant: an error of the transaction's read ends the notification.
TxGetStopsOnError(d, ok) ==
    /\ Running
    /\ task[d].pc = "txget"
    /\ task' = [task EXCEPT ![d] =
                 IF ok /\ store[task[d].key].exists
                 THEN [@ EXCEPT !.pc = "txcommit", !.snap = store[task[d].key]]
                 ELSE [@ EXCEPT !.pc = "done", !.term = "UpdateFailed"]]
    /\ UNCHANGED <<proc, clients, nextClient, creates, idle, since200, pinger, refreshes, store>>

\* updateDeviceStats: tx.Get(key, &device) inside the transaction.
TxGet(d, ok) ==
    /\ Running
    /\ task[d].pc = "txget"
    /\ task' = [task EXCEPT ![d] =
                 IF ok /\ store[task[d].key].exists
                 THEN [@ EXCEPT !.pc = "txcommit", !.snap = store[task[d].key]]
                 ELSE AfterUpdate(@)]
    /\ UNCHANGED <<proc, clients, nextClient, creates, idle, since200, pinger, refreshes, store>>

\* Mutant: the commit does not compare the entity with the one it read.
TxCommitBlind(d, ok, again) ==
    /\ Running
    /\ task[d].pc = "txcommit"
    /\ ~again
    /\ LET t == task[d]
           cur == store[t.key]
       IN  /\ store' = IF ok
                       THEN [store EXCEPT ![t.key] =
                               [Bookkeep(t.snap, t.calls[Len(t.calls)] = "success") EXCEPT !.version = cur.version + 1]]
                       ELSE store
           /\ task' = [task EXCEPT ![d] = AfterUpdate([@ EXCEPT !.snap = NoDevice])]
    /\ UNCHANGED <<proc, clients, nextClient, creates, idle, since200, pinger, refreshes>>

\* Mutant: the Put of a transaction whose entity has been deleted since it
\* was read is committed all the same.
TxCommitRecreates(d, ok, again) ==
    /\ Running
    /\ task[d].pc = "txcommit"
    /\ LET t == task[d]
           cur == store[t.key]
       IN  IF cur.version = t.snap.version \/ ~cur.exists
           THEN /\ ~again
                /\ store' = IF ok
                            THEN [store EXCEPT ![t.key] =
                                    [Bookkeep(t.snap, t.calls[Len(t.calls)] = "success") EXCEPT !.version = cur.version + 1]]
                            ELSE store
                /\ task' = [task EXCEPT ![d] = AfterUpdate([@ EXCEPT !.snap = NoDevice])]
           ELSE /\ ok
                /\ store' = store
                /\ task' = [task EXCEPT ![d] =
                             IF again
                             THEN [@ EXCEPT !.pc = "txget", !.snap = NoDevice]
                             ELSE AfterUpdate([@ EXCEPT !.snap = NoDevice])]
    /\ UNCHANGED <<proc, clients, nextClient, creates, idle, since200, pinger, refreshes>>

\* updateDeviceStats: tx.Put and the commit of RunInTransaction.  The commit
\* succeeds only if the entity is the one the transaction read; after a
\* conflict the library runs the function again or gives up with an error.
TxCommit(d, ok, again) ==
    /\ Running
    /\ task[d].pc = "txcommit"
    /\ LET t == task[d]
           cur == store[t.key]
       IN  IF cur.version = t.snap.version
           THEN /\ ~again
                /\ store' = IF ok
                            THEN [store EXCEPT ![t.key] =
                                    [Bookkeep(t.snap, t.calls[Len(t.calls)] = "success") EXCEPT !.version = cur.version + 1]]
                            ELSE store
                /\ task' = [task EXCEPT ![d] = AfterUpdate([@ EXCEPT !.snap = NoDevice])]
           ELSE /\ ok
                /\ store' = store
                /\ task' = [task EXCEPT ![d] =
                             IF again
                             THEN [@ EXCEPT !.pc = "txget", !.snap = NoDevice]
                             ELSE AfterUpdate([@ EXCEPT !.snap = NoDevice])]
    /\ UNCHANGED <<proc, clients, nextClient, creates, idle, since200, pinger, refreshes>>

\* Mutant: the loop does not count its attempts.
WakeKeepsAttempt(d) ==
    /\ Running
    /\ task[d].pc = "sleep"
    /\ task' = [task EXCEPT ![d] = [@ EXCEPT !.pc = "lookup"]]
    /\ UNCHANGED <<proc, clients, nextClient, creates, idle, since200, pinger, refreshes, store>>

\* time.Sleep returns; attempt += 1.
Wake(d) ==
    /\ Running
    /\ task[d].pc = "sleep"
    /\ task' = [task EXCEPT ![d] = [@ EXCEPT !.pc = "lookup", !.attempt = @ + 1]]
    /\ UNCHANGED <<proc, clients, nextClient, creates, idle, since200, pinger, refreshes, store>>

\* ------------------------------------------------------------ specifications
Next ==
    \/ \E app \in RegApps, ok \in BOOLEAN : Create(app, ok)
    \/ Serve
    \/ Tick
    \/ PingerCheck
    \/ \E app \in RegApps, ok \in BOOLEAN : PingerNewClient(app, ok)
    \/ PingerStore
    \/ PingerWake
    \/ \E d \in FirstSlot, app \in PayloadApps, key \in FirstKey : Spawn(d, app, key)
    \/ \E d \in Slots, detected \in BOOLEAN : Lookup(d, detected)
    \/ \E d \in Slots, out \in Outcomes : Respond(d, out)
    \/ \E d \in Slots, ok \in BOOLEAN : Delete(d, ok)
    \/ \E d \in Slots, ok \in BOOLEAN : TxGet(d, ok)
    \/ \E d \in Slots, ok, again \in BOOLEAN : TxCommit(d, ok, again)
    \/ \E d \in Slots : Wake(d)

Spec == Init /\ [][Next]_vars

\* Two notifications handled concurrently within one threshold period: the
\* clock does not reach the point where the pinger refreshes the registry.
NextRace ==
    \/ \E app \in RegApps, ok \in BOOLEAN : Create(app, ok)
    \/ Serve
    \/ PingerCheck
    \/ PingerWake
    \/ \E d \in Slots, app \in RegApps, key \in Keys : Spawn(d, app, key)
    \/ \E d \in Slots, detected \in BOOLEAN : Lookup(d, detected)
    \/ \E d \in Slots, out \in RaceOutcomes : Respond(d, out)
    \/ \E d \in Slots, ok \in BOOLEAN : Delete(d, ok)
    \/ \E d \in Slots, ok \in BOOLEAN : TxGet(d, ok)
    \/ \E d \in Slots, ok, again \in BOOLEAN : TxCommit(d, ok, again)
    \/ \E d \in Slots : Wake(d)

SpecRace == Init /\ [][NextRace]_vars

\* One step of the push goroutine in slot d.
TaskStep(d) ==
    \/ \E detected \in BOOLEAN : Lookup(d, detected)
    \/ \E out \in Outcomes : Respond(d, out)
    \/ \E ok \in BOOLEAN : Delete(d, ok)
    \/ \E ok \in BOOLEAN : TxGet(d, ok)
    \/ \E ok, again \in BOOLEAN : TxCommit(d, ok, again)
    \/ Wake(d)

\* One notification against every outcome of the gateway and of the store,
\* every call of which returns: the scheduler runs a goroutine that can take
\* a step.
NextLive ==
    \/ \E app \in RegApps, ok \in BOOLEAN : Create(app, ok)
    \/ Serve
    \/ PingerCheck
    \/ PingerWake
    \/ \E d \in FirstSlot, app \in PayloadApps, key \in FirstKey : Spawn(d, app, key)
    \/ \E d \in Slots : TaskStep(d)

SpecLive == Init /\ [][NextLive]_vars /\ \A d \in Slots : WF_vars(TaskStep(d))

\* ------------------------------------------------------------ properties
PermanentStatuses == {400, 410}
RetryableStatuses == {429, 500, 503}
ClassifiedStatuses == {200} \cup PermanentStatuses \cup RetryableStatuses

IsStatus(err, codes) == IsPushError(err) /\ err.StatusCode \in codes

\* The store calls a task has made, by kind.
Count(calls, kind) == Cardinality({i \in 1 .. Len(calls) : calls[i] = kind})

\* C1: an attempt that returns status 400 or 410 is the last attempt of its
\* notification, and the task calls store.Delete for the device key before it
\* ends (as DroppedPermanent).
C1_PermanentDeletesNoRetry ==
    \A d \in Slots :
        LET t == task[d] IN
        \A i \in 1 .. Len(t.errs) :
            IsStatus(t.errs[i], PermanentStatuses) =>
                /\ i = Len(t.errs)
                /\ t.attempt = i
                /\ t.pc \in {"delete", "done"}
                /\ Len(t.calls) = i
                /\ t.calls[i] = "delete"
                /\ Count(t.calls, "delete") = 1
                /\ t.pc = "done" => t.term = "DroppedPermanent"

\* C1 witness: a 400 on the second attempt, after a 503, ended the task.
C1_Witness ==
    \E d \in Slots :
        /\ task[d].pc = "done"
        /\ task[d].term = "DroppedPermanent"
        /\ task[d].errs = <<PushError(503), PushError(400)>>

\* C2 (as claimed): an attempt that returns a status outside 200, 400, 410,
\* 429, 500, 503 is followed by exactly one failure update and then the
\* notification is dropped: no further attempt, no sleep, no delete.
C2_OtherStatusDropsAfterOneUpdate ==
    \A d \in Slots :
        LET t == task[d] IN
        \A i \in 1 .. Len(t.errs) :
            (IsPushError(t.errs[i]) /\ t.errs[i].StatusCode \notin ClassifiedStatuses) =>
                /\ i = Len(t.errs)
                /\ t.pc \in {"txget", "txcommit", "done"}
                /\ Len(t.calls) = i
                /\ t.calls[i] = "failure"
                /\ Len(t.delays) = i - 1

\* C3 (as claimed): a notification for an application that is not in the
\* registry is dropped at once: no lookup or attempt, no store call, no sleep.
C3_UnregisteredAppDroppedAtOnce ==
    \A d \in Slots :
        LET t == task[d] IN
        (t.pc # "idle" /\ t.app \notin DOMAIN clients) =>
            /\ t.pc \in {"lookup", "done"}
            /\ t.attempt <= 1
            /\ t.errs = <<>>
            /\ t.calls = <<>>
            /\ t.delays = <<>>

\* C4: a notification whose attempts all return 429, 500 or 503 gets exactly
\* MaxRetries attempts, one failure update per attempt, and is then dropped as
\* DroppedExhausted; there is never an attempt beyond MaxRetries.
C4_RetryableExhaustsAfterMaxRetries ==
    \A d \in Slots :
        LET t == task[d] IN
        (Len(t.errs) >= 1 /\ \A i \in 1 .. Len(t.errs) : IsStatus(t.errs[i], RetryableStatuses)) =>
            /\ Len(t.errs) <= MaxRetries
            /\ t.attempt <= MaxRetries
            /\ t.calls = [i \in 1 .. Len(t.errs) |-> "failure"]
            /\ t.pc = "done" =>
                 /\ Len(t.errs) = MaxRetries
                 /\ t.attempt = MaxRetries
                 /\ t.term = "DroppedExhausted"

\* C4 witness: 429, 500, 503 in turn, then dropped.
C4_Witness ==
    \E d \in Slots :
        /\ task[d].pc = "done"
        /\ task[d].term = "DroppedExhausted"
        /\ task[d].errs = <<PushError(429), PushError(500), PushError(503)>>
        /\ task[d].calls = <<"failure", "failure", "failure">>

\* C5: an attempt that returns status 200 is the last one; the task makes
\* exactly one update with success = true, for that attempt, and ends as
\* Succeeded: no sleep, no delete and no failure update follow it.
C5_SuccessUpdatesOnceAndStops ==
    \A d \in Slots :
        LET t == task[d] IN
        \A i \in 1 .. Len(t.errs) :
            t.errs[i] = Nil =>
                /\ i = Len(t.errs)
                /\ t.attempt = i
                /\ Len(t.calls) = i
                /\ t.calls[i] = "success"
                /\ Count(t.calls, "success") = 1
                /\ Count(t.calls, "delete") = 0
                /\ Len(t.delays) = i - 1
                /\ t.pc \in {"txget", "txcommit", "done"}
                /\ t.pc = "done" => t.term = "Succeeded"

\* C5 witness: status 200 on the first attempt, task over.
C5_Witness ==
    \E d \in Slots :
        /\ task[d].pc = "done"
        /\ task[d].term = "Succeeded"
        /\ task[d].errs = <<Nil>>
        /\ task[d].calls = <<"success">>

\* C6: attempts returning 503, 503, 200 give two failure updates followed by
\* one success update, no delete, sleeps of 1 s then 2 s (3 s in all), and the
\* task ends as Succeeded.
C6_TwoFailuresThenSuccess ==
    \A d \in Slots :
        LET t == task[d] IN
        t.errs = <<PushError(503), PushError(503), Nil>> =>
            /\ t.calls = <<"failure", "failure", "success">>
            /\ t.delays = <<1, 2>>
            /\ t.delays[1] + t.delays[2] >= 3
            /\ t.pc \in {"txget", "txcommit", "done"}
            /\ t.pc = "done" => t.term = "Succeeded"

\* C6 witness: the scenario ran to its end.
C6_Witness ==
    \E d \in Slots :
        /\ task[d].pc = "done"
        /\ task[d].term = "Succeeded"
        /\ task[d].errs = <<PushError(503), PushError(503), Nil>>

\* C7 (as claimed): a test of the pinger made when no attempt has received
\* status 200 for more than PingThreshold starts a refresh of the registry and
\* resets the timestamp, whatever other responses arrived in between.
C7_NoSuccessForThresholdRefreshes ==
    [][(PingerCheck /\ since200 > PingThreshold) => (idle' = 0 /\ pinger'.pc = "range")]_vars

\* C8: the pinger never changes a task; a request in flight keeps the client
\* its lookup read from the registry, and completes against that client.
C8_RefreshLeavesInFlightAttempts ==
    [][/\ (pinger' # pinger \/ clients' # clients) => task' = task
       /\ \A d \in Slots :
            /\ (task[d].pc = "lookup" /\ task'[d].pc = "do") =>
                   task'[d].client = clients[task[d].app]
            /\ task[d].pc = "do" =>
                   /\ task'[d].pc = "do" => task'[d].client = task[d].client
                   /\ task'[d].pc # "do" => task'[d].served = task[d].client]_vars

\* C8 witness: a request is in flight on a client the registry has replaced.
C8_Witness ==
    \E d \in Slots :
        /\ task[d].pc = "do"
        /\ task[d].app \in DOMAIN clients
        /\ task[d].client # clients[task[d].app]

\* C9 (as claimed): Create of a registered application stops the process and
\* leaves the entry as it was; the lookup of an unregistered application
\* returns an error to its task and never stops the process.
C9_CreateFatalLookupRecoverable ==
    [][/\ \A app \in RegApps, ok \in BOOLEAN :
            (Create(app, ok) /\ app \in DOMAIN clients) =>
                (proc' = "panic" /\ clients' = clients)
       /\ \A d \in Slots, detected \in BOOLEAN :
            (Lookup(d, detected) /\ task[d].app \notin DOMAIN clients) =>
                (proc' = proc /\ task'[d].err = InvalidApp)]_vars

\* C10: a committed success update sets Failures to 0 and adds 1 to
\* TotalSuccesses; a committed failure update adds 1 to Failures and to
\* TotalFailures; nothing else changes an entity but its deletion, and the
\* totals of an existing entity never decrease.
C10_BookkeepingCounters ==
    [][\A k \in Keys :
         LET a == store[k]
             b == store'[k]
         IN  /\ (a.exists /\ b.exists) =>
                    /\ b.TotalFailures >= a.TotalFailures
                    /\ b.TotalSuccesses >= a.TotalSuccesses
             /\ b # a =>
                 \E d \in Slots :
                    /\ task'[d] # task[d]
                    /\ task[d].key = k
                    /\ a.exists
                    /\ IF task[d].pc = "delete" THEN ~b.exists
                       ELSE /\ task[d].pc = "txcommit"
                            /\ b.exists
                            /\ IF task[d].calls[Len(task[d].calls)] = "success"
                               THEN /\ b.Failures = 0
                                    /\ b.TotalSuccesses = a.TotalSuccesses + 1
                                    /\ b.TotalFailures = a.TotalFailures
                               ELSE /\ b.Failures = a.Failures + 1
                                    /\ b.TotalFailures = a.TotalFailures + 1
                                    /\ b.TotalSuccesses = a.TotalSuccesses]_vars

\* C10 witness: two tasks on one key, one ended in a success and one was
\* exhausted, and all four of their updates are in the entity.
C10_Witness ==
    /\ task[1].key = task[2].key
    /\ task[1].pc = "done" /\ task[1].term = "DroppedExhausted"
    /\ task[2].pc = "done" /\ task[2].term = "Succeeded" /\ Len(task[2].errs) = 1
    /\ store[task[1].key].exists
    /\ store[task[1].key].TotalFailures = OldDevice.TotalFailures + MaxRetries
    /\ store[task[1].key].TotalSuccesses = OldDevice.TotalSuccesses + 1
    /\ store[task[1].key].Failures = 0

\* C11: the step with which a task leaves updateDeviceStats depends only on
\* the result of Push and the attempt number, never on whether the update was
\* committed: nil ends the task as Succeeded, an error at an attempt below
\* MaxRetries goes to the backoff sleep (and then to attempt + 1), an error at
\* attempt MaxRetries ends the task as DroppedExhausted.
C11_UpdateFailureKeepsControlFlow ==
    [][\A d \in Slots :
         LET t == task[d]
             u == task'[d]
             InUpdate == {"txget", "txcommit"}
         IN  (t.pc \in InUpdate /\ u.pc \notin InUpdate) =>
                 /\ u.attempt = t.attempt
                 /\ u.err = t.err
                 /\ IF t.err = Nil
                    THEN u.pc = "done" /\ u.term = "Succeeded"
                    ELSE IF t.attempt < MaxRetries
                    THEN u.pc = "sleep" /\ u.delays = Append(t.delays, Exp2(t.attempt - 1))
                    ELSE u.pc = "done" /\ u.term = "DroppedExhausted"
       /\ \A e \in Slots :
            (task[e].pc = "sleep" /\ task'[e] # task[e]) =>
                (task'[e].pc = "lookup" /\ task'[e].attempt = task[e].attempt + 1)]_vars

\* C11 witness: a 503 then a 200, neither update reached the entity, and the
\* task retried and ended as Succeeded all the same.
C11_Witness ==
    \E d \in Slots :
        /\ task[d].pc = "done"
        /\ task[d].term = "Succeeded"
        /\ task[d].calls = <<"failure", "success">>
        /\ store[task[d].key] = OldDevice

\* C12: the delete a permanent failure leads to never stops the process and
\* always ends its task as DroppedPermanent, whether it removes the entity,
\* fails, or finds the entity already gone (a second permanent failure for the
\* same key); an entity that is gone stays gone over the delete.
C12_RepeatedPermanentTolerated ==
    [][\A d \in Slots :
         (task[d].pc = "delete" /\ task'[d] # task[d]) =>
             /\ proc' = proc
             /\ task'[d].pc = "done"
             /\ task'[d].term = "DroppedPermanent"
             /\ \A k \in Keys :
                  /\ ~store[k].exists => store'[k] = store[k]
                  /\ k # task[d].key => store'[k] = store[k]
                  /\ store'[k].exists => store'[k] = store[k]]_vars

\* C12 witness: two notifications for one key both got a permanent failure;
\* the entity was removed once, both tasks are DroppedPermanent, the process
\* is serving.
C12_Witness ==
    /\ Running
    /\ task[1].key = task[2].key
    /\ \A d \in Slots : task[d].pc = "done" /\ task[d].term = "DroppedPermanent"
    /\ ~store[task[1].key].exists
    /\ store[task[1].key].version = OldDevice.version + 1

\* C13 (as claimed): the registry is never read by a push goroutine while
\* the pinger is in the middle of assigning to it, so the runtime never stops
\* the process for a concurrent map read and map write.
C13_RegistryAccessGuarded ==
    /\ proc # "throw"
    /\ \A d \in Slots : ~(pinger.pc = "writing" /\ task[d].pc = "lookup")

\* C14: updates of one entity from concurrent tasks are serialized by the
\* transaction: every committed update was computed from the entity as it was
\* committed just before (the snapshot the transaction read is the current
\* entity), it adds exactly 1 to TotalFailures + TotalSuccesses, and so after
\* k commits the sum is k above where it began.
C14_ConcurrentUpdatesSerialized ==
    /\ [](\A k \in Keys :
            store[k].exists =>
                store[k].TotalFailures + store[k].TotalSuccesses
                    = OldDevice.TotalFailures + OldDevice.TotalSuccesses
                      + (store[k].version - OldDevice.version))
    /\ [][\A k \in Keys :
            LET a == store[k]
                b == store'[k]
            IN  (b # a /\ b.exists) =>
                    /\ b.version = a.version + 1
                    /\ b.TotalFailures + b.TotalSuccesses = a.TotalFailures + a.TotalSuccesses + 1
                    /\ \E d \in Slots :
                         /\ task[d].pc = "txcommit"
                         /\ task[d].key = k
                         /\ task[d].snap = a
                         /\ task'[d] # task[d]
                         /\ b = [Bookkeep(a, task[d].err = Nil) EXCEPT !.version = a.version + 1]]_vars

\* C14 witness: two updates of one entity ran concurrently: a transaction
\* holds a snapshot that the commit of the other task has since replaced.
C14_Witness ==
    \E d, e \in Slots :
        /\ d # e
        /\ task[d].key = task[e].key
        /\ task[d].pc = "txcommit"
        /\ store[task[d].key].exists
        /\ task[d].snap.version < store[task[d].key].version
        /\ Len(task[e].calls) >= 1

\* C15: from an attempt that returned 400 or 410 to the end of its task there
\* is no updateDeviceStats call: the task has made one update for each
\* earlier attempt and none for this one, it is never inside the transaction,
\* and the only change it can make to the store is the removal of the entity
\* of its key, whose counters show at most the earlier attempts.
C15_PermanentSkipsBookkeeping ==
    /\ [](\A d \in Slots :
            LET t == task[d] IN
            (t.err # NoErr /\ IsStatus(t.err, PermanentStatuses)) =>
                /\ t.pc \in {"delete", "done"}
                /\ t.snap = NoDevice
                /\ Count(t.calls, "success") = 0
                /\ Count(t.calls, "failure") = Len(t.errs) - 1
                /\ store[t.key].exists =>
                       /\ store[t.key].TotalSuccesses = OldDevice.TotalSuccesses
                       /\ store[t.key].TotalFailures <= OldDevice.TotalFailures + Len(t.errs) - 1)
    /\ [][\A d \in Slots :
            (IsStatus(task[d].err, PermanentStatuses) /\ task'[d] # task[d]) =>
                /\ task[d].pc = "delete"
                /\ task'[d].calls = task[d].calls
                /\ \A k \in Keys :
                     store'[k] # store[k] => (k = task[d].key /\ ~store'[k].exists)]_vars

\* C15 witness: a 410 on the first attempt; the task is over, the entity is
\* gone, and the one store call was the delete.
C15_Witness ==
    \E d \in Slots :
        /\ task[d].pc = "done"
        /\ task[d].errs = <<PushError(410)>>
        /\ task[d].calls = <<"delete">>
        /\ ~store[task[d].key].exists

\* C16 (as claimed): the global timestamp is written only by an attempt that
\* received status 200 and by the reset of the pinger; an attempt that got
\* another status, or no response, leaves the time since the last write as it
\* was.
C16_TimestampOnlyOnSuccess ==
    [][/\ \A d \in Slots, out \in Outcomes :
            (Respond(d, out) /\ ~(out.kind = "response" /\ out.code = 200)) => idle' = idle
       /\ idle' < idle =>
            \/ PingerCheck /\ Stale
            \/ \E d \in Slots : Respond(d, Resp(200))]_vars

\* Every error of the task's attempts is a PushError with status 429, 500 or 503.
AllRetryable(errs) == \A i \in 1 .. Len(errs) : IsStatus(errs[i], RetryableStatuses)

\* C17 (as claimed): a notification that fails with 429, 500 or 503 on every
\* attempt has slept 1 s, 2 s and 4 s between its attempts when it is dropped.
C17_DelaysOneTwoFour ==
    \A d \in Slots :
        LET t == task[d] IN
        (t.pc = "done" /\ t.term = "DroppedExhausted" /\ AllRetryable(t.errs)) =>
            t.delays = <<1, 2, 4>>

\* C17 (amended): the n-th sleep of a task lasts exactly 2^(n-1) s and follows
\* failed attempt n < MaxRetries; no sleep follows attempt MaxRetries, so a
\* task never sleeps more than MaxRetries - 1 times and a notification that
\* fails with 429, 500 or 503 on all three attempts has slept 1 s and 2 s, and
\* never 4 s, when it is dropped.
C17_DelaysOneTwo ==
    \A d \in Slots :
        LET t == task[d] IN
        /\ Len(t.delays) <= MaxRetries - 1
        /\ \A n \in 1 .. Len(t.delays) : t.delays[n] = Exp2(n - 1)
        /\ t.pc = "sleep" => (Len(t.delays) = t.attempt /\ t.attempt < MaxRetries)
        /\ (t.pc \notin {"idle", "sleep"} /\ t.app # "") => Len(t.delays) = t.attempt - 1
        /\ (t.pc = "done" /\ t.term = "DroppedExhausted" /\ AllRetryable(t.errs)) =>
               /\ t.attempt = MaxRetries
               /\ t.delays = <<1, 2>>

\* C17 witness: 503 three times, dropped after sleeps of 1 s and 2 s.
C17_Witness ==
    \E d \in Slots :
        /\ task[d].pc = "done"
        /\ task[d].term = "DroppedExhausted"
        /\ task[d].errs = <<PushError(503), PushError(503), PushError(503)>>
        /\ task[d].delays = <<1, 2>>

\* C18: an attempt that ends in an error without a status (no response from
\* the gateway) is followed by exactly one failure update and no delete; the
\* task then sleeps 2^(n-1) s and tries again if n < MaxRetries, and ends as
\* DroppedExhausted if n = MaxRetries, as it does after a 429, 500 or 503.
C18_TransportErrorRetried ==
    \A d \in Slots :
        LET t == task[d] IN
        \A n \in 1 .. Len(t.errs) :
            t.errs[n] = TransportErr =>
                /\ n <= MaxRetries
                /\ Len(t.calls) >= n
                /\ t.calls[n] = "failure"
                /\ n < Len(t.errs) => (Len(t.delays) >= n /\ t.delays[n] = Exp2(n - 1))
                /\ n = Len(t.errs) =>
                     /\ t.pc \in {"txget", "txcommit", "sleep", "lookup", "do", "done"}
                     /\ t.pc \in {"txget", "txcommit", "sleep", "done"} => t.attempt = n
                     /\ t.pc = "sleep" => (n < MaxRetries /\ Len(t.delays) = n)
                     /\ t.pc \in {"lookup", "do"} =>
                          (t.attempt = n + 1 /\ n < MaxRetries /\ t.delays[n] = Exp2(n - 1))
                     /\ t.pc = "done" => (n = MaxRetries /\ t.term = "DroppedExhausted")
                     /\ store[t.key].exists

\* C18 witness: no response on any of the three attempts; three failure
\* updates are in the entity, which still exists, and the task is exhausted.
C18_Witness ==
    \E d \in Slots :
        /\ task[d].pc = "done"
        /\ task[d].term = "DroppedExhausted"
        /\ task[d].errs = <<TransportErr, TransportErr, TransportErr>>
        /\ task[d].calls = <<"failure", "failure", "failure">>
        /\ store[task[d].key].exists
        /\ store[task[d].key].TotalFailures = OldDevice.TotalFailures + MaxRetries

\* C19: no step creates an entity: a key that has no entity has none after
\* any step, whatever updates are running or start later; the transaction of
\* an update that finds no entity ends at its read, without a Put, and the
\* task goes on as after any update.
C19_UpdateNeverCreates ==
    [][/\ \A k \in Keys : ~store[k].exists => store'[k] = store[k]
       /\ \A d \in Slots :
            (task[d].pc = "txget" /\ ~store[task[d].key].exists /\ task'[d] # task[d]) =>
                /\ task'[d].pc \in {"sleep", "done"}
                /\ task'[d].snap = NoDevice
                /\ store' = store]_vars

\* C19 witness: a permanent failure removed the entity while the other task's
\* update of it is between its read and its commit.
C19_Witness ==
    \E d, e \in Slots :
        /\ d # e
        /\ task[d].key = task[e].key
        /\ task[d].pc = "done" /\ task[d].term = "DroppedPermanent"
        /\ task[e].pc = "txcommit" /\ task[e].snap.exists
        /\ ~store[task[d].key].exists

\* C20: the attempt counter of a running task is within 1 .. MaxRetries and
\* the task has made no more than MaxRetries attempts; and, when the scheduler
\* runs it and each of its calls returns, a task that has started reaches
\* the end of push, whatever the gateway and the store answer.
C20_DispatcherTerminates ==
    /\ [](\A d \in Slots :
            LET t == task[d] IN
            /\ Len(t.errs) <= MaxRetries
            /\ (t.pc # "idle" /\ t.app # "") =>
                   /\ t.attempt \in 1 .. MaxRetries
                   /\ Len(t.errs) \in {t.attempt - 1, t.attempt}
            /\ t.pc = "done" =>
                   t.term \in {"Unrecognized", "Succeeded", "DroppedPermanent", "DroppedExhausted"})
    /\ \A d \in Slots : (task[d].pc \notin {"idle", "done"}) ~> (task[d].pc = "done")

\* C20 witness: no response, then 403, then 503: the task made MaxRetries
\* attempts and is over.
C20_Witness ==
    \E d \in Slots :
        /\ task[d].pc = "done"
        /\ task[d].attempt = MaxRetries
        /\ task[d].errs = <<TransportErr, PushError(403), PushError(503)>>

====
